---------------------------- MODULE Spec2Model ----------------------------
(* pydyf: a low-level PDF generator (src/pydyf/__init__.py).               *)
(* Bytes are modelled as TLA+ strings, one character per byte.  A Python  *)
(* value handed to the encoder is a tagged record [t, v]:                  *)
(*   "bytes"  v is the byte string itself                                  *)
(*   "str"    v is an ASCII text                                           *)
(*   "int"    v is the integer                                             *)
(*   "float"  v is the number in millionths (2.5 is 2500000)               *)
(*   "Array"  v is the sequence of the array's children                    *)
EXTENDS Integers, Sequences, FiniteSets, TLC

VARIABLES
    objects,            \* PDF.objects
    current_position,   \* PDF.current_position
    xref_position,      \* PDF.xref_position
    sink,               \* the output sink the caller has open: the write
                        \* calls it received, the writer phases begun on it
    calls,              \* writing operations called on the document so far
    page_log,           \* list indices of the objects handed to add_page
    last,               \* the caller's last operation
    stream,             \* a Stream under construction
    trace,              \* the tokens of the builder calls made on stream,
                        \* in call order
    text,               \* the text of a String
    result              \* what the last data accessor call returned

vars == <<objects, current_position, xref_position, sink, calls, page_log,
          last, stream, trace, text, result>>

docVars == <<objects, current_position, xref_position, sink, calls,
             page_log, last>>

(* ---------------------------- bounds ---------------------------------- *)

\* objects registered by the caller after the four reserved ones
MaxObjects == 2
\* calls of the writing operations on one document
MaxCalls == 2
\* builder calls on one stream
MaxTokens == 2
\* characters of a String's text
MaxLen == 2

(* ------------------------- byte helpers ------------------------------- *)

\* xref_position before any cross-reference table was written (None)
None == -1

PyBytes(v) == [t |-> "bytes", v |-> v]
PyStr(v) == [t |-> "str", v |-> v]
PyInt(v) == [t |-> "int", v |-> v]
PyFloat(v) == [t |-> "float", v |-> v]
PyArray(v) == [t |-> "Array", v |-> v]

RECURSIVE Join(_, _)
\* sep.join(parts)
Join(sep, parts) ==
    IF Len(parts) = 0 THEN ""
    ELSE IF Len(parts) = 1 THEN parts[1]
    ELSE parts[1] \o sep \o Join(sep, Tail(parts))

RECURSIVE Concat(_)
\* the bytes a sink holds after the write calls it received
Concat(chunks) ==
    IF Len(chunks) = 0 THEN "" ELSE chunks[1] \o Concat(Tail(chunks))

RECURSIVE ZeroPad(_, _)
\* format(n, '0<width>') of a non-negative integer
ZeroPad(s, width) == IF Len(s) >= width THEN s ELSE ZeroPad("0" \o s, width)

Abs(n) == IF n < 0 THEN -n ELSE n

\* f'{item:f}' of a float given in millionths
FixedPoint(m) ==
    (IF m < 0 THEN "-" ELSE "") \o ToString(Abs(m) \div 1000000) \o "."
        \o ZeroPad(ToString(Abs(m) % 1000000), 6)

(* ------------------------- value encoder ------------------------------ *)

RECURSIVE to_bytes(_)
RECURSIVE ArrayItems(_)

ArrayItems(items) ==
    IF Len(items) = 0 THEN <<>>
    ELSE <<to_bytes(items[1])>> \o ArrayItems(Tail(items))

\* Array.data
Array_data(items) == Join(" ", <<"[">> \o ArrayItems(items) \o <<"]">>)

to_bytes(item) ==
    CASE item.t = "bytes" -> item.v
      [] item.t = "Array" -> Array_data(item.v)
      [] item.t = "float" ->
            IF item.v % 1000000 = 0 THEN ToString(item.v \div 1000000)
            ELSE FixedPoint(item.v)
      [] item.t = "int" -> ToString(item.v)
      [] item.t = "str" -> item.v

(* --------------------------- dictionaries ----------------------------- *)

\* a dict is the sequence of its entries [k, v] in insertion order

HasKey(d, k) == \E i \in 1..Len(d) : d[i].k = k

DictGet(d, k) == d[CHOOSE i \in 1..Len(d) : d[i].k = k].v

\* d[k] = v
DictSet(d, k, v) ==
    IF HasKey(d, k)
    THEN [i \in 1..Len(d) |-> IF d[i].k = k THEN [k |-> k, v |-> v] ELSE d[i]]
    ELSE Append(d, [k |-> k, v |-> v])

RECURSIVE DictLines(_)
DictLines(d) ==
    IF Len(d) = 0 THEN <<>>
    ELSE <<"/" \o to_bytes(PyStr(d[1].k)) \o " " \o to_bytes(d[1].v)>>
            \o DictLines(Tail(d))

Dictionary_data(d) == Join("\n", <<"<<">> \o DictLines(d) \o <<">>">>)

(* ------------------------------ String -------------------------------- *)

\* a text is a sequence of Unicode code points

\* the ASCII characters of code points 40 to 90
AsciiTable == "()*+,-./0123456789:;<=>?@ABCDEFGHIJKLMNOPQRSTUVWXYZ"

\* the byte of an ASCII code point (texts are drawn from 40..90 and above 127)
Chr(cp) == SubSeq(AsciiTable, cp - 39, cp - 39)

\* str.encode('ascii') succeeds
IsAscii(txt) == \A i \in 1..Len(txt) : txt[i] < 128

RECURSIVE EncodeAscii(_)
EncodeAscii(txt) ==
    IF Len(txt) = 0 THEN "" ELSE Chr(txt[1]) \o EncodeAscii(Tail(txt))

IsSurrogate(cp) == cp >= 55296 /\ cp <= 57343

\* str.encode('utf-16-be') succeeds: the codec rejects lone surrogates
Utf16Encodable(txt) == \A i \in 1..Len(txt) : ~IsSurrogate(txt[i])

\* the 16-bit code units of one code point
Utf16Units(cp) ==
    IF cp < 65536 THEN <<cp>>
    ELSE <<55296 + ((cp - 65536) \div 1024), 56320 + ((cp - 65536) % 1024)>>

RECURSIVE Utf16BE(_)
\* the bytes of str.encode('utf-16-be'), as a sequence of integers 0..255
Utf16BE(txt) ==
    IF Len(txt) = 0 THEN <<>>
    ELSE LET u == Utf16Units(txt[1])
             b == [i \in 1..(2 * Len(u)) |->
                     IF i % 2 = 1 THEN u[(i + 1) \div 2] \div 256
                     ELSE u[i \div 2] % 256]
         IN b \o Utf16BE(Tail(txt))

\* codecs.BOM_UTF16_BE
BOM_UTF16_BE == <<254, 255>>

HexDigit(n) == SubSeq("0123456789abcdef", n + 1, n + 1)

RECURSIVE Hex(_)
\* bytes.hex()
Hex(bs) ==
    IF Len(bs) = 0 THEN ""
    ELSE HexDigit(bs[1] \div 16) \o HexDigit(bs[1] % 16) \o Hex(Tail(bs))

\* String.data: raised is TRUE when UnicodeEncodeError leaves the accessor
String_data(txt) ==
    IF IsAscii(txt)
    THEN [raised |-> FALSE, data |-> "(" \o EncodeAscii(txt) \o ")"]
    ELSE IF Utf16Encodable(txt)
    THEN [raised |-> FALSE,
          data |-> "<" \o Hex(BOM_UTF16_BE \o Utf16BE(txt)) \o ">"]
    ELSE [raised |-> TRUE, data |-> ""]

(* ------------------------------ Stream -------------------------------- *)

RECURSIVE RunLength(_, _)
\* s with every run of one repeated byte written once, followed by the
\* length of the run when it is longer than one
RunLength(s, i) ==
    IF i > Len(s) THEN ""
    ELSE LET c == SubSeq(s, i, i)
             n == CHOOSE k \in 1..(Len(s) - i + 1) :
                    /\ \A j \in 0..(k - 1) : SubSeq(s, i + j, i + j) = c
                    /\ (i + k > Len(s) \/ SubSeq(s, i + k, i + k) # c)
         IN c \o (IF n > 1 THEN ToString(n) ELSE "") \o RunLength(s, i + n)

\* zlib.compressobj().compress(s) + flush(): the zlib library is outside the
\* repository; the stand-in keeps the framing of a zlib stream (two header
\* bytes, the coded payload with its end-of-block marker, four checksum
\* bytes) and, like deflate, changes both the content and the length.
Compress(s) == "x^" \o RunLength(s, 1) \o "." \o "####"

RECURSIVE TokenBytes(_)
TokenBytes(tokens) ==
    IF Len(tokens) = 0 THEN <<>>
    ELSE <<to_bytes(tokens[1])>> \o TokenBytes(Tail(tokens))

\* the body Stream.data emits between the stream and endstream lines
Stream_body(s) ==
    LET raw == Join("\n", TokenBytes(s.items))
    IN IF s.compress THEN Compress(raw) ELSE raw

\* Length taken from the body before compression
Stream_extra_raw(s) ==
    LET e1 == IF s.compress
              THEN DictSet(s.extra, "Filter", PyStr("/FlateDecode"))
              ELSE s.extra
    IN DictSet(e1, "Length", PyInt(Len(Join("\n", TokenBytes(s.items)))))

\* the Dictionary Stream.data builds from a copy of extra
Stream_extra(s) ==
    LET e1 == IF s.compress
              THEN DictSet(s.extra, "Filter", PyStr("/FlateDecode"))
              ELSE s.extra
    IN DictSet(e1, "Length", PyInt(Len(Stream_body(s))))

Stream_data(s) ==
    Join("\n", <<Dictionary_data(Stream_extra(s)), "stream", Stream_body(s),
                 "endstream">>)

(* ------------------------------ Object -------------------------------- *)

\* Object.__init__ with the fields of the variants
Object(kind) ==
    [kind |-> kind, number |-> None, offset |-> 0, generation |-> 0,
     free |-> "n", items |-> <<>>, extra |-> <<>>, compress |-> FALSE,
     string |-> <<>>]

Dictionary(values) == [Object("Dictionary") EXCEPT !.items = values]

Stream(tokens, extra, compress) ==
    [Object("Stream") EXCEPT !.items = tokens, !.extra = extra,
                             !.compress = compress]

String(txt) == [Object("String") EXCEPT !.string = txt]

\* the data accessor raises: NotImplementedError on the base class,
\* UnicodeEncodeError out of String.data
DataRaises(o) ==
    \/ o.kind = "Object"
    \/ o.kind = "String" /\ String_data(o.string).raised

Object_data(o) ==
    CASE o.kind = "Dictionary" -> Dictionary_data(o.items)
      [] o.kind = "Array" -> Array_data(o.items)
      [] o.kind = "Stream" -> Stream_data(o)
      [] o.kind = "String" -> String_data(o.string).data

Object_indirect(o) ==
    Join("\n", <<ToString(o.number) \o " " \o ToString(o.generation) \o " obj",
                 Object_data(o), "endobj">>)

Object_reference(o) ==
    ToString(o.number) \o " " \o ToString(o.generation) \o " R"

(* ------------------------- document assembler ------------------------- *)

\* add_object numbering from one
add_object_from_one(objs, o) == Append(objs, [o EXCEPT !.number = Len(objs) + 1])

\* PDF.add_object
add_object(objs, o) == Append(objs, [o EXCEPT !.number = Len(objs)])

\* PDF.__init__: the object list after construction
PDF_objects ==
    LET zero_object == [Object("Object") EXCEPT !.generation = 65535,
                                                !.free = "f"]
        o0 == add_object(<<>>, zero_object)
        pages == Dictionary(<<[k |-> "Type", v |-> PyStr("/Pages")],
                              [k |-> "Kids", v |-> PyArray(<<>>)],
                              [k |-> "Count", v |-> PyInt(0)]>>)
        o1 == add_object(o0, pages)
        info == Dictionary(<<>>)
        o2 == add_object(o1, info)
        catalog == Dictionary(<<[k |-> "Type", v |-> PyStr("/Catalog")],
                                [k |-> "Pages",
                                 v |-> PyBytes(Object_reference(o2[2]))]>>)
    IN add_object(o2, catalog)

\* self.pages, self.info, self.catalog are the objects at list indices 1, 2, 3
Pages(objs) == objs[2]
Info(objs) == objs[3]
Catalog(objs) == objs[4]

\* PDF.add_page
add_page(objs, page) ==
    LET count == DictGet(Pages(objs).items, "Count").v
        o1 == [objs EXCEPT ![2].items =
                  DictSet(@, "Count", PyInt(count + 1))]
        o2 == add_object(o1, page)
        registered == o2[Len(o2)]
        kids == DictGet(Pages(o2).items, "Kids").v
    IN [o2 EXCEPT ![2].items =
          DictSet(@, "Kids",
                  PyArray(kids \o <<PyInt(registered.number), PyInt(0),
                                     PyStr("R")>>))]

(* ------------------------------ writer -------------------------------- *)

\* The writer works on a record m: the document's objects, current_position
\* (pos) and xref_position (xref), the sink's received write calls (out), the
\* phases begun on the sink (phases), and whether an exception is propagating.

Machine(objs, pos, xref, output) ==
    [objects |-> objs, pos |-> pos, xref |-> xref, out |-> output.chunks,
     phases |-> output.phases, raised |-> FALSE]

Begin(m, phase) == [m EXCEPT !.phases = Append(@, phase)]

\* write_line that does not count the newline it writes
write_line_uncounted(m, content) ==
    [m EXCEPT !.pos = @ + Len(content),
              !.out = Append(@, content \o "\n")]

\* PDF.write_line
write_line(m, content) ==
    [m EXCEPT !.pos = @ + Len(content) + 1,
              !.out = Append(@, content \o "\n")]

RECURSIVE Split(_, _, _)
\* s.split(b'\n'), scanning from position i with cur the line being read
Split(s, i, cur) ==
    IF i > Len(s) THEN <<cur>>
    ELSE IF SubSeq(s, i, i) = "\n" THEN <<cur>> \o Split(s, i + 1, "")
    ELSE Split(s, i + 1, cur \o SubSeq(s, i, i))

RECURSIVE write_lines(_, _)
write_lines(m, lines) ==
    IF Len(lines) = 0 THEN m
    ELSE write_lines(write_line(m, lines[1]), Tail(lines))

\* PDF.write_object
write_object(m, data) == write_lines(m, Split(data, 1, ""))

\* the four marker bytes f0 9f 96 a4 of the second header line
Marker == "~~~~"

\* PDF.write_header
write_header(m) ==
    write_line(write_line(Begin(m, "Header"), "%PDF-1.7"), "%" \o Marker)

RECURSIVE body_from_late(_, _)
\* write_body that records an offset only after the object was encoded
body_from_late(m, i) ==
    IF i > Len(m.objects) THEN m
    ELSE IF m.objects[i].free = "f" THEN body_from_late(m, i + 1)
    ELSE IF DataRaises(m.objects[i]) THEN [m EXCEPT !.raised = TRUE]
    ELSE LET m1 == [m EXCEPT !.objects[i].offset = m.pos]
         IN body_from_late(write_line(m1, Object_indirect(m1.objects[i])),
                           i + 1)

RECURSIVE body_from(_, _)
\* the loop of PDF.write_body from list index i on
body_from(m, i) ==
    IF i > Len(m.objects) THEN m
    ELSE IF m.objects[i].free = "f" THEN body_from(m, i + 1)
    ELSE LET m1 == [m EXCEPT !.objects[i].offset = m.pos]
         IN IF DataRaises(m1.objects[i]) THEN [m1 EXCEPT !.raised = TRUE]
            ELSE body_from(write_line(m1, Object_indirect(m1.objects[i])),
                           i + 1)

\* PDF.write_body
write_body(m) == body_from(Begin(m, "Body"), 1)

\* one row of the cross-reference table
xref_row(o) ==
    ZeroPad(ToString(o.offset), 10) \o " " \o
    ZeroPad(ToString(o.generation), 5) \o " " \o o.free \o " "

RECURSIVE xref_rows(_)
xref_rows(objs) ==
    IF Len(objs) = 0 THEN <<>>
    ELSE <<xref_row(objs[1])>> \o xref_rows(Tail(objs))

\* a cross-reference table with rows for the non-free objects only
write_cross_reference_table_used(m) ==
    LET m1 == [Begin(m, "Xref") EXCEPT !.xref = m.pos]
        m2 == write_line(m1, "xref")
        m3 == write_line(m2, "0 " \o ToString(Len(m.objects)))
    IN write_lines(m3, xref_rows(SelectSeq(m.objects,
                                           LAMBDA o : o.free # "f")))

\* PDF.write_cross_reference_table
write_cross_reference_table(m) ==
    LET m1 == [Begin(m, "Xref") EXCEPT !.xref = m.pos]
        m2 == write_line(m1, "xref")
        m3 == write_line(m2, "0 " \o ToString(Len(m.objects)))
    IN write_lines(m3, xref_rows(m.objects))

\* the Dictionary PDF.write_trailer builds
trailer_dict(m) ==
    <<[k |-> "Size", v |-> PyInt(Len(m.objects))],
      [k |-> "Root", v |-> PyBytes(Object_reference(Catalog(m.objects)))],
      [k |-> "Info", v |-> PyBytes(Object_reference(Info(m.objects)))]>>

\* PDF.write_trailer
write_trailer(m) ==
    LET m1 == write_line(Begin(m, "Trailer"), "trailer")
        m2 == write_object(m1, Dictionary_data(trailer_dict(m)))
        m3 == write_line(m2, "startxref")
        m4 == write_line(m3, IF m.xref = None THEN "None"
                             ELSE ToString(m.xref))
    IN write_line(m4, "%%EOF")

\* write that emits the trailer before the cross-reference table
write_trailer_first(m) ==
    LET m1 == write_body(write_header(m))
    IN IF m1.raised THEN m1
       ELSE write_cross_reference_table(write_trailer(m1))

\* PDF.write
write(m) ==
    LET m1 == write_body(write_header(m))
    IN IF m1.raised THEN m1
       ELSE write_trailer(write_cross_reference_table(m1))

(* ------------------------- document operations ------------------------ *)

\* the output of the latest completed write() to an empty sink, valid while
\* nothing was called on the document since
NoSnap == [valid |-> FALSE, out |-> <<>>]

Call(op, m) ==
    [op |-> op, raised |-> m.raised, fresh |-> calls = 0,
     start |-> Len(sink.chunks), pstart |-> Len(sink.phases),
     pos0 |-> current_position, objs0 |-> objects, prev |-> last.snap,
     snap |-> IF op = "write" /\ ~m.raised /\ Len(sink.chunks) = 0
              THEN [valid |-> TRUE, out |-> m.out]
              ELSE IF op = "new_sink" THEN last.snap
              ELSE NoSnap]

NoMachine == [raised |-> FALSE]

\* the objects a caller constructs and registers
ObjectTags == {"stream", "base", "free"}

NewObject(tag) ==
    CASE tag = "stream" ->
            Stream(<<PyBytes("q"), PyBytes("Q")>>,
                   <<[k |-> "Length", v |-> PyInt(99)]>>, TRUE)
      [] tag = "base" -> Object("Object")
      [] tag = "free" -> [Object("Object") EXCEPT !.free = "f"]

\* the generations a caller gives a page before adding it
Generations == {0, 1}

NewPage(g) ==
    [Dictionary(<<[k |-> "Type", v |-> PyStr("/Page")]>>)
        EXCEPT !.generation = g]

NoResult == [kind |-> "none", raised |-> FALSE, data |-> ""]

EmptySink == [chunks |-> <<>>, phases |-> <<>>]

\* the document after PDF(), and an empty sink
InitDocument ==
    /\ objects = PDF_objects
    /\ current_position = 0
    /\ xref_position = None
    /\ sink = EmptySink
    /\ calls = 0
    /\ page_log = <<>>
    /\ last = [op |-> "init", raised |-> FALSE, fresh |-> TRUE,
               start |-> 0, pstart |-> 0, pos0 |-> 0, objs0 |-> <<>>,
               prev |-> NoSnap, snap |-> NoSnap]

Init ==
    /\ InitDocument
    /\ stream = Stream(<<>>, <<>>, FALSE)
    /\ trace = <<>>
    /\ text = <<>>
    /\ result = NoResult

AddObject(tag) ==
    /\ Len(objects) < 4 + MaxObjects
    /\ objects' = add_object(objects, NewObject(tag))
    /\ last' = Call("add_object", NoMachine)
    /\ UNCHANGED <<current_position, xref_position, sink, calls, page_log,
                   stream, trace, text, result>>

AddPage(g) ==
    /\ Len(objects) < 4 + MaxObjects
    /\ objects' = add_page(objects, NewPage(g))
    /\ page_log' = Append(page_log, Len(objects) + 1)
    /\ last' = Call("add_page", NoMachine)
    /\ UNCHANGED <<current_position, xref_position, sink, calls, stream,
                   trace, text, result>>

\* the caller closes the sink in use and opens a new, empty one
NewSink ==
    /\ Len(sink.chunks) > 0
    /\ sink' = EmptySink
    /\ last' = Call("new_sink", NoMachine)
    /\ UNCHANGED <<objects, current_position, xref_position, calls,
                   page_log, stream, trace, text, result>>

\* one writing operation op called with the sink; m is the writer's state
\* when the call ends
Writer(op, m) ==
    /\ calls < MaxCalls
    /\ calls' = calls + 1
    /\ objects' = m.objects
    /\ current_position' = m.pos
    /\ xref_position' = m.xref
    /\ sink' = [chunks |-> m.out, phases |-> m.phases]
    /\ last' = Call(op, m)
    /\ UNCHANGED <<page_log, stream, trace, text, result>>

Start == Machine(objects, current_position, xref_position, sink)

WriteHeader == Writer("write_header", write_header(Start))

WriteBody == Writer("write_body", write_body(Start))

WriteCrossReferenceTable ==
    Writer("write_cross_reference_table", write_cross_reference_table(Start))

WriteTrailer == Writer("write_trailer", write_trailer(Start))

Write == Writer("write", write(Start))

Next ==
    \/ \E tag \in ObjectTags : AddObject(tag)
    \/ \E g \in Generations : AddPage(g)
    \/ NewSink
    \/ WriteHeader
    \/ WriteBody
    \/ WriteCrossReferenceTable
    \/ WriteTrailer
    \/ Write

Spec == Init /\ [][Next]_vars

(* ------------------------ content stream builder ---------------------- *)

\* the token put in front of the sequence
append_front(s, token) == [s EXCEPT !.items = <<PyBytes(token)>> \o @]

\* self.stream.append(token)
append(s, token) == [s EXCEPT !.items = Append(@, PyBytes(token))]

begin_text == "BT"
clip(even_odd) == IF even_odd THEN "W*" ELSE "W"
close == "h"
color_space(space, stroke) ==
    "/" \o to_bytes(space) \o " " \o (IF stroke THEN "CS" ELSE "cs")
curve_to(x1, y1, x2, y2, x3, y3) ==
    Join(" ", <<to_bytes(x1), to_bytes(y1), to_bytes(x2), to_bytes(y2),
                to_bytes(x3), to_bytes(y3), "c">>)
curve_start_to(x2, y2, x3, y3) ==
    Join(" ", <<to_bytes(x2), to_bytes(y2), to_bytes(x3), to_bytes(y3), "v">>)
curve_end_to(x1, y1, x3, y3) ==
    Join(" ", <<to_bytes(x1), to_bytes(y1), to_bytes(x3), to_bytes(y3), "y">>)
draw_x_object(reference) == "/" \o to_bytes(reference) \o " Do"
end == "n"
end_text == "ET"
fill(even_odd) == IF even_odd THEN "f*" ELSE "f"
fill_and_stroke(even_odd) == IF even_odd THEN "B*" ELSE "B"
fill_stroke_and_close(even_odd) == IF even_odd THEN "b*" ELSE "b"
line_to(x, y) == Join(" ", <<to_bytes(x), to_bytes(y), "l">>)
move_to(x, y) == Join(" ", <<to_bytes(x), to_bytes(y), "m">>)
shading(name) == "/" \o to_bytes(name) \o " sh"
pop_state == "Q"
push_state == "q"
rectangle(x, y, width, height) ==
    Join(" ", <<to_bytes(x), to_bytes(y), to_bytes(width), to_bytes(height),
                "re">>)
set_color_rgb(r, g, b, stroke) ==
    Join(" ", <<to_bytes(r), to_bytes(g), to_bytes(b),
                IF stroke THEN "RG" ELSE "rg">>)
set_color_special(name, stroke) ==
    "/" \o to_bytes(name) \o " " \o (IF stroke THEN "SCN" ELSE "scn")
set_dash(dash_array, dash_phase) ==
    Join(" ", <<Array_data(dash_array), to_bytes(dash_phase), "d">>)
set_font_size(font, size) ==
    "/" \o to_bytes(font) \o " " \o to_bytes(size) \o " Tf"
set_text_rendering(mode) == to_bytes(mode) \o " Tr"
set_line_cap(line_cap) == to_bytes(line_cap) \o " J"
set_line_join(line_join) == to_bytes(line_join) \o " j"
set_line_width(width) == to_bytes(width) \o " w"
set_miter_limit(miter_limit) == to_bytes(miter_limit) \o " M"
set_state(state_name) == "/" \o to_bytes(state_name) \o " gs"
show_text(txt) == "[" \o to_bytes(txt) \o "] TJ"
stroke == "S"
stroke_and_close == "s"
text_matrix(a, b, c, d, e, f) ==
    Join(" ", <<to_bytes(a), to_bytes(b), to_bytes(c), to_bytes(d),
                to_bytes(e), to_bytes(f), "Tm">>)
transform(a, b, c, d, e, f) ==
    Join(" ", <<to_bytes(a), to_bytes(b), to_bytes(c), to_bytes(d),
                to_bytes(e), to_bytes(f), "cm">>)

\* the builder calls a caller makes: every method, with sample operands
BuilderCalls ==
    LET i0 == PyInt(0)
        i1 == PyInt(1)
        half == PyFloat(2500000)
        two == PyFloat(2000000)
        neg == PyFloat(-1250000)
    IN {begin_text, clip(FALSE), clip(TRUE), close,
        color_space(PyStr("DeviceRGB"), FALSE),
        color_space(PyStr("DeviceRGB"), TRUE),
        curve_to(i0, i1, half, two, neg, i1),
        curve_start_to(i0, i1, half, two),
        curve_end_to(i0, i1, half, two),
        draw_x_object(PyStr("Im0")), end, end_text,
        fill(FALSE), fill(TRUE), fill_and_stroke(FALSE),
        fill_stroke_and_close(FALSE),
        line_to(i1, half), move_to(two, neg), shading(PyStr("Sh0")),
        pop_state, push_state, rectangle(i0, i0, i1, half),
        set_color_rgb(i1, i0, half, FALSE), set_color_rgb(i1, i0, half, TRUE),
        set_color_special(PyStr("P0"), FALSE),
        set_dash(<<i1, two>>, i0), set_font_size(PyStr("F1"), PyInt(12)),
        set_text_rendering(i1), set_line_cap(i1), set_line_join(i1),
        set_line_width(half), set_miter_limit(two), set_state(PyStr("GS0")),
        show_text(PyBytes(String_data(<<72, 73>>).data)),
        stroke, stroke_and_close,
        text_matrix(i1, i0, i0, i1, half, neg),
        transform(i1, i0, i0, i1, half, neg)}

\* the extra dictionaries a caller hands to Stream()
Extras ==
    {<<>>,
     <<[k |-> "Length", v |-> PyInt(99)],
       [k |-> "Filter", v |-> PyStr("/ASCIIHexDecode")],
       [k |-> "Type", v |-> PyStr("/XObject")]>>}

InitStream ==
    /\ InitDocument
    /\ \E e \in Extras, c \in BOOLEAN : stream = Stream(<<>>, e, c)
    /\ trace = <<>>
    /\ text = <<>>
    /\ result = NoResult

\* one builder call on the stream
BuilderCall(token) ==
    /\ Len(trace) < MaxTokens
    /\ stream' = append(stream, token)
    /\ trace' = Append(trace, token)
    /\ result' = NoResult
    /\ UNCHANGED <<docVars, text>>

\* the caller reads stream.data
ReadStreamData ==
    /\ result' = [kind |-> "Stream", raised |-> FALSE,
                  data |-> Stream_data(stream)]
    /\ UNCHANGED <<docVars, stream, trace, text>>

NextStream ==
    \/ \E token \in BuilderCalls : BuilderCall(token)
    \/ ReadStreamData

SpecStream == InitStream /\ [][NextStream]_vars

(* --------------------------- String values ---------------------------- *)

\* code points: ')', 'H', 'I', e-acute, the euro sign, an emoji outside the
\* basic plane, a lone high and a lone low surrogate
CodePoints == {41, 72, 73, 233, 8364, 128512, 55296, 57343}

Texts == UNION {[1..n -> CodePoints] : n \in 0..MaxLen}

InitString ==
    /\ InitDocument
    /\ stream = Stream(<<>>, <<>>, FALSE)
    /\ trace = <<>>
    /\ text \in Texts
    /\ result = NoResult

\* the caller reads String(text).data
ReadStringData ==
    /\ result.kind = "none"
    /\ result' = [kind |-> "String", raised |-> String_data(text).raised,
                  data |-> String_data(text).data]
    /\ UNCHANGED <<docVars, stream, trace, text>>

NextString == ReadStringData

SpecString == InitString /\ [][NextString]_vars

(* ====================================================================== *)
(*                              Properties                                *)
(* ====================================================================== *)

\* the bytes the sink holds
SinkBytes == Concat(sink.chunks)

\* the write calls the last operation made on its sink
NewChunks ==
    SubSeq(sink.chunks, last.start + 1, Len(sink.chunks))

\* the phases the last operation began on its sink
NewPhases ==
    SubSeq(sink.phases, last.pstart + 1, Len(sink.phases))

\* the last operation was a write() that returned
WriteReturned == last.op = "write" /\ ~last.raised

StartsAt(bytes, pos, piece) ==
    /\ pos >= 0
    /\ pos + Len(piece) <= Len(bytes)
    /\ SubSeq(bytes, pos + 1, pos + Len(piece)) = piece

IsDigits(str) ==
    /\ Len(str) > 0
    /\ \A i \in 1..Len(str) :
          \E d \in 0..9 : SubSeq(str, i, i) = ToString(d)

RECURSIVE ParseInt(_)
\* the number a string of decimal digits denotes
ParseInt(str) ==
    IF Len(str) = 0 THEN 0
    ELSE 10 * ParseInt(SubSeq(str, 1, Len(str) - 1))
         + (CHOOSE d \in 0..9 : SubSeq(str, Len(str), Len(str)) = ToString(d))

RECURSIVE LinesFrom(_, _)
\* the lines of bytes from position i on, read by scanning for newlines
LinesFrom(bytes, i) ==
    IF i > Len(bytes) THEN <<>>
    ELSE LET p == CHOOSE q \in i..Len(bytes) :
                    /\ SubSeq(bytes, q, q) = "\n"
                    /\ \A r \in i..(q - 1) : SubSeq(bytes, r, r) # "\n"
         IN <<SubSeq(bytes, i, p - 1)>> \o LinesFrom(bytes, p + 1)

\* the lines of a byte string that ends with a newline
Lines(bytes) == LinesFrom(bytes, 1)

\* the index of the first line equal to str (0 when there is none)
LineIndex(lines, str) ==
    IF \E i \in 1..Len(lines) : lines[i] = str
    THEN CHOOSE i \in 1..Len(lines) :
            lines[i] = str /\ \A j \in 1..(i - 1) : lines[j] # str
    ELSE 0

(* C3: object numbering. In every state every object's number is its index *)
(* in the object list (Python counts from 0); objects 0..3 are the free    *)
(* head (generation 65535, flag 'f'), the page tree, the info dictionary   *)
(* and the catalog; later objects get numbers >= 4, the first one 4; and   *)
(* no step removes an object or changes a number already assigned.         *)
C3_NumberingState ==
    /\ Len(objects) >= 4
    /\ \A i \in 1..Len(objects) : objects[i].number = i - 1
    /\ objects[1].kind = "Object"
    /\ objects[1].generation = 65535
    /\ objects[1].free = "f"
    /\ objects[2].kind = "Dictionary"
    /\ DictGet(objects[2].items, "Type") = PyStr("/Pages")
    /\ HasKey(objects[2].items, "Kids") /\ HasKey(objects[2].items, "Count")
    /\ objects[3].kind = "Dictionary"
    /\ ~HasKey(objects[3].items, "Type")
    /\ objects[4].kind = "Dictionary"
    /\ DictGet(objects[4].items, "Type") = PyStr("/Catalog")
    /\ DictGet(objects[4].items, "Pages") =
          PyBytes(ToString(objects[2].number) \o " 0 R")
    /\ \A i \in 5..Len(objects) : objects[i].number >= 4
    /\ Len(objects) >= 5 => objects[5].number = 4

C3_AppendOnly ==
    /\ Len(objects') >= Len(objects)
    /\ \A i \in 1..Len(objects) :
          /\ objects'[i].number = objects[i].number
          /\ objects'[i].kind = objects[i].kind
          /\ objects'[i].generation = objects[i].generation

\* C3: the numbering invariant holds in every state and every step keeps the
\* list append-only and the numbers assigned
C3_Numbering == []C3_NumberingState /\ [][C3_AppendOnly]_vars

\* two objects registered after construction, the second by add_page
C3_Witness ==
    /\ Len(objects) = 6
    /\ last.op = "add_page"
    /\ objects[5].number = 4
    /\ objects[6].number = 5

(* C6 (as claimed): after any sequence of add_page calls, Count is the     *)
(* number of pages added, Kids has 3 * Count elements, and the k-th        *)
(* triplet of Kids is the k-th added page's own number, own generation     *)
(* and R, i.e. spells that page's reference.                               *)
C6_KidsAreReferences ==
    LET count == DictGet(Pages(objects).items, "Count").v
        kids == DictGet(Pages(objects).items, "Kids").v
    IN /\ count = Len(page_log)
       /\ Len(kids) = 3 * count
       /\ \A k \in 1..Len(page_log) :
            LET page == objects[page_log[k]]
                triplet == SubSeq(kids, 3 * k - 2, 3 * k)
            IN /\ triplet = <<PyInt(page.number), PyInt(page.generation),
                              PyStr("R")>>
               /\ Join(" ", ArrayItems(triplet)) = Object_reference(page)

(* C1: cross-reference integrity. After a write() that returned, called on *)
(* a document built by add_object/add_page only (no writing operation      *)
(* before) with an empty sink: every non-free object's offset attribute is *)
(* the offset its cross-reference row shows and is the byte position in    *)
(* the sink where its indirect form "<number> <generation> obj" begins,    *)
(* and the number after startxref is the position where the xref line      *)
(* begins.                                                                 *)
C1_XrefIntegrity ==
    (WriteReturned /\ last.fresh /\ last.start = 0) =>
        LET bytes == SinkBytes
            lines == Lines(bytes)
            x == LineIndex(lines, "xref")
            sx == LineIndex(lines, "startxref")
        IN /\ x > 0 /\ sx > x
           /\ IsDigits(lines[sx + 1])
           /\ StartsAt(bytes, ParseInt(lines[sx + 1]), "xref\n")
           /\ StartsAt(bytes, ParseInt(lines[sx + 1]) - 1, "\n")
           /\ ParseInt(lines[sx + 1]) = xref_position
           /\ \A i \in 1..Len(objects) :
                objects[i].free # "f" =>
                  LET row == lines[x + 1 + i]
                      off == ParseInt(SubSeq(row, 1, 10))
                  IN /\ IsDigits(SubSeq(row, 1, 10))
                     /\ off = objects[i].offset
                     /\ StartsAt(bytes, off - 1, "\n")
                     /\ StartsAt(bytes, off,
                                 ToString(i - 1) \o " " \o
                                 ToString(objects[i].generation) \o " obj\n")

\* a first write() of a document with two added objects, one of them a page
\* of generation 1, has returned
C1_Witness ==
    /\ WriteReturned /\ last.fresh /\ last.start = 0
    /\ Len(objects) = 6
    /\ \E i \in 5..6 : objects[i].generation = 1 /\ objects[i].offset > 0
    /\ \E i \in 5..6 : objects[i].kind = "Stream" /\ objects[i].offset > 0

(* C2 (as claimed): a write() to a fresh empty sink that directly follows  *)
(* a completed write() to another empty sink, nothing but opening the sink *)
(* in between, produces the same bytes as that earlier write().            *)
C2_Idempotent ==
    (WriteReturned /\ last.start = 0 /\ last.prev.valid) =>
        SinkBytes = Concat(last.prev.out)

AllPhases == <<"Header", "Body", "Xref", "Trailer">>

IsPrefix(p, q) == Len(p) <= Len(q) /\ SubSeq(q, 1, Len(p)) = p

EndsWith(str, tail) ==
    Len(str) >= Len(tail) /\ SubSeq(str, Len(str) - Len(tail) + 1, Len(str)) = tail

\* the non-free objects of a list, in list order
NonFree(objs) == SelectSeq(objs, LAMBDA o : o.free # "f")

(* C4 (as claimed): on the sink the phases emitted so far, by whatever   *)
(* writing operations were called, are Header, Body, Xref, Trailer in this *)
(* order, each at most once.                                               *)
C4_PhasesOrderedOnce ==
    IsPrefix(sink.phases, AllPhases)

(* C4 (amended): within one write() call the phases are emitted in the     *)
(* order Header, Body, Xref, Trailer, each exactly once when the call      *)
(* returns; a call that raises stops in the Body phase. In the bytes the   *)
(* call wrote, the header line comes first and, when it returns, the xref  *)
(* line precedes the trailer line and %%EOF is last.                       *)
C4_WritePhases ==
    last.op = "write" =>
        /\ NewPhases = IF last.raised THEN <<"Header", "Body">> ELSE AllPhases
        /\ NewChunks[1] = "%PDF-1.7\n"
        /\ ~last.raised =>
             LET lines == Lines(Concat(NewChunks))
                 x == LineIndex(lines, "xref")
                 t == LineIndex(lines, "trailer")
             IN /\ 2 < x /\ x < t
                /\ lines[Len(lines)] = "%%EOF"
                /\ \A i \in 1..Len(lines) :
                      /\ lines[i] = "%PDF-1.7" => i = 1
                      /\ lines[i] = "xref" => i = x
                      /\ lines[i] = "trailer" => i = t
                      /\ EndsWith(lines[i], " obj") => (2 < i /\ i < x)

\* a second write() on a sink that already holds a complete file returned
C4_Witness == WriteReturned /\ last.pstart = 4 /\ Len(NewPhases) = 4

(* C7 (as claimed): a write() during which encoding an object fails has    *)
(* written nothing to the sink and left the document as it was (running    *)
(* offset, object offsets).                                                *)
C7_NoPartialWrite ==
    (last.op = "write" /\ last.raised) =>
        /\ Len(NewChunks) = 0
        /\ current_position = last.pos0
        /\ objects = last.objs0

\* list indices of the non-free objects whose data accessor raises
Failing(objs) ==
    {i \in 1..Len(objs) : objs[i].free # "f" /\ DataRaises(objs[i])}

Min(S) == CHOOSE i \in S : \A j \in S : i <= j

(* C7 (amended): a write() returns exactly when no non-free object fails   *)
(* to encode, and then it has emitted the complete file. Otherwise the     *)
(* exception leaves the call after the two header lines and the indirect   *)
(* forms of the non-free objects before the first failing one were written *)
(* to the sink: the running offset has advanced by the bytes written, the  *)
(* offsets of those objects and of the failing one have been set, later    *)
(* objects are untouched, and no xref table or trailer is written.         *)
C7_PartialWrite ==
    last.op = "write" =>
        LET bad == Failing(last.objs0)
            c == NewChunks
        IN IF bad = {}
           THEN /\ ~last.raised
                /\ NewPhases = AllPhases
                /\ c[1] = "%PDF-1.7\n"
                /\ c[Len(c)] = "%%EOF\n"
                /\ Len(c) = 2 + Len(NonFree(objects)) + 2 + Len(objects) + 9
           ELSE LET k == Min(bad)
                    before == NonFree(SubSeq(objects, 1, k - 1))
                IN /\ last.raised
                   /\ Len(c) = 2 + Len(before)
                   /\ c[1] = "%PDF-1.7\n"
                   /\ c[2] = "%" \o Marker \o "\n"
                   /\ \A j \in 1..Len(before) :
                        /\ c[2 + j] = Object_indirect(before[j]) \o "\n"
                        /\ before[j].offset =
                              last.pos0 + Len(Concat(SubSeq(c, 1, 1 + j)))
                   /\ current_position = last.pos0 + Len(Concat(c))
                   /\ current_position > last.pos0
                   /\ objects[k].offset = current_position
                   /\ \A i \in (k + 1)..Len(objects) :
                        objects[i] = last.objs0[i]
                   /\ Len(objects) = Len(last.objs0)

\* a write() raised at an object of the base type after writing the header
\* and at least the three reserved objects
C7_Witness ==
    /\ last.op = "write" /\ last.raised
    /\ Len(NewChunks) >= 5
    /\ current_position > last.pos0

\* one row of the cross-reference table as the file format states it:
\* %010d %05d %s and a trailing space
ExpectedRow(o) ==
    ZeroPad(ToString(o.offset), 10) \o " " \o
    ZeroPad(ToString(o.generation), 5) \o " " \o o.free \o " "

(* C8: in every write() that returned, the count of the "0 <count>" line,  *)
(* the number of cross-reference rows and the trailer's Size are the       *)
(* length of the object list; row i carries the offset, generation and     *)
(* free flag of object i (free objects included, row 0 with flag f); the   *)
(* body has one obj block per non-free object, none for a free one, in     *)
(* ascending list order.                                                   *)
C8_TableCoversList ==
    WriteReturned =>
        LET lines == Lines(Concat(NewChunks))
            n == Len(objects)
            x == LineIndex(lines, "xref")
            heads == SelectSeq(SubSeq(lines, 1, x - 1),
                               LAMBDA l : EndsWith(l, " obj"))
            ends == SelectSeq(SubSeq(lines, 1, x - 1),
                              LAMBDA l : l = "endobj")
            used == NonFree(objects)
        IN /\ x > 0
           /\ lines[x + 1] = "0 " \o ToString(n)
           /\ \A i \in 1..n : lines[x + 1 + i] = ExpectedRow(objects[i])
           /\ lines[x + 1 + 1] = "0000000000 65535 f "
           /\ lines[x + 2 + n] = "trailer"
           /\ lines[x + 3 + n] = "<<"
           /\ lines[x + 4 + n] = "/Size " \o ToString(n)
           /\ Len(heads) = Len(used)
           /\ Len(ends) = Len(used)
           /\ \A j \in 1..Len(used) :
                heads[j] = ToString(used[j].number) \o " " \o
                           ToString(used[j].generation) \o " obj"
           /\ \A j \in 1..(Len(used) - 1) : used[j].number < used[j + 1].number

\* a write() returned for a list that holds a free object added by the caller
C8_Witness ==
    /\ WriteReturned
    /\ Len(objects) = 6
    /\ \E i \in 5..6 : objects[i].free = "f"
    /\ \E i \in 5..6 : objects[i].free = "n"

StartsWith(str, head) == Len(str) >= Len(head) /\ SubSeq(str, 1, Len(head)) = head

(* C5: stream length. In the bytes Stream.data returns, whatever the       *)
(* tokens, the extra dictionary (also one that already holds Length or     *)
(* Filter) and the compress flag, the dictionary has one Length entry and  *)
(* its number is the byte count of the body between the stream line and    *)
(* the endstream line; with compress on, the body is the compressed token  *)
(* bytes and the dictionary has exactly one Filter entry, /FlateDecode;    *)
(* with compress off the body is the newline-joined tokens.                *)
C5_StreamLength ==
    result.kind = "Stream" =>
        LET lines == Lines(result.data \o "\n")
            last_dict_line == LineIndex(lines, ">>")
            dict == SubSeq(lines, 2, last_dict_line - 1)
            body == Join("\n", SubSeq(lines, last_dict_line + 2, Len(lines) - 1))
            lengths == SelectSeq(dict, LAMBDA l : StartsWith(l, "/Length "))
            filters == SelectSeq(dict, LAMBDA l : StartsWith(l, "/Filter "))
        IN /\ lines[1] = "<<"
           /\ last_dict_line > 1
           /\ lines[last_dict_line + 1] = "stream"
           /\ lines[Len(lines)] = "endstream"
           /\ Len(lines) >= last_dict_line + 3
           /\ lengths = <<"/Length " \o ToString(Len(body))>>
           /\ IF stream.compress
              THEN /\ filters = <<"/Filter /FlateDecode">>
                   /\ body = Compress(Join("\n", trace))
              ELSE body = Join("\n", trace)

\* data was read from a compressed stream of two tokens whose extra
\* dictionary already held Length and Filter
C5_Witness ==
    /\ result.kind = "Stream"
    /\ stream.compress
    /\ Len(trace) = 2
    /\ HasKey(stream.extra, "Length") /\ HasKey(stream.extra, "Filter")

(* C10: the builder is append-only. The token sequence of the stream is    *)
(* always the tokens of the builder calls made, in call order (after n     *)
(* calls, n tokens), whatever the pairing of the operators; and a builder  *)
(* call appends its one token at the end, leaving the earlier tokens and   *)
(* extra, compress, number, generation, offset and free as they were.      *)
C10_TokensAreCalls ==
    /\ Len(stream.items) = Len(trace)
    /\ TokenBytes(stream.items) = trace

C10_OneTokenAppended ==
    trace' # trace =>
        /\ Len(stream'.items) = Len(stream.items) + 1
        /\ SubSeq(stream'.items, 1, Len(stream.items)) = stream.items
        /\ stream'.items[Len(stream'.items)] = PyBytes(trace'[Len(trace')])
        /\ stream'.extra = stream.extra
        /\ stream'.compress = stream.compress
        /\ stream'.number = stream.number
        /\ stream'.generation = stream.generation
        /\ stream'.offset = stream.offset
        /\ stream'.free = stream.free

\* C10: the tokens are always the calls made, in order, and every builder
\* call appends exactly one token and changes nothing else
C10_AppendOnly == []C10_TokensAreCalls /\ [][C10_OneTokenAppended]_vars

\* pop_state without push_state, then end_text without begin_text
C10_Witness ==
    /\ trace = <<"Q", "ET">>
    /\ stream.items = <<PyBytes("Q"), PyBytes("ET")>>

(* C9 (as claimed): String.data returns a result for every text and never  *)
(* lets an encoding error out; the result is the parenthesized ASCII bytes *)
(* exactly when every character is ASCII, and otherwise the angle-bracket  *)
(* form of the lowercase hex of the byte-order mark and the UTF-16         *)
(* big-endian bytes.                                                       *)
C9_StringTotal ==
    result.kind = "String" =>
        /\ ~result.raised
        /\ StartsWith(result.data, "(") <=> (\A i \in 1..Len(text) : text[i] < 128)
        /\ (\A i \in 1..Len(text) : text[i] < 128) =>
              result.data = "(" \o EncodeAscii(text) \o ")"
        /\ (\E i \in 1..Len(text) : text[i] >= 128) =>
              /\ StartsWith(result.data, "<feff")
              /\ EndsWith(result.data, ">")
              /\ Len(result.data) >= 6 + 4 * Len(text)
              /\ \A i \in 2..(Len(result.data) - 1) :
                    \E d \in 0..15 : SubSeq(result.data, i, i) = HexDigit(d)

=============================================================================
